---- MODULE Spec2Model ----
(***************************************************************************)
(* A model of the Navio web application (src/project/main.py,              *)
(* src/project/database.py):                                               *)
(*                                                                         *)
(*   - the nearby-places resolver, GET /api/nearby (main.py 161-301):      *)
(*     query construction, the single outbound call, the element loop      *)
(*     (coordinate selection, de-duplication, labelling), ranking,         *)
(*     truncation and the except clause;                                   *)
(*   - the signup handler, POST /signup (main.py 36-84), over the user     *)
(*     table of database.py with its UNIQUE column `mobile`.               *)
(*                                                                         *)
(* Conventions.                                                            *)
(*   - A coordinate is an integer number of 1e-5 degrees                   *)
(*     (12.97160 deg is 1297160).                                          *)
(*   - An optional value (a JSON member that may be missing, a Python      *)
(*     value that may be None) is None or Some(v).                         *)
(*   - A string the code only compares or looks up is a TLA+ string; a     *)
(*     string the code transforms (the "name" tag and the display name     *)
(*     made from it) is a sequence of one-character strings.               *)
(***************************************************************************)
EXTENDS Integers, Sequences, FiniteSets, TLC

VARIABLES
    pc,         \* resolver: "idle", "sent" (httpx.post in flight), "loop", "done"
    lat,        \* resolver: query parameter lat
    lng,        \* resolver: query parameter lng
    filter,     \* resolver: query parameter filter (after FastAPI's default)
    query,      \* resolver: the query posted upstream
    calls,      \* resolver: outbound calls made for this request
    reply,      \* resolver: what the upstream service answered
    elements,   \* resolver: local `elements`
    i,          \* resolver: position of the for loop in `elements`
    places,     \* resolver: local `places`
    seen,       \* resolver: local `seen`
    response,   \* resolver: what the caller receives
    spc,        \* signup: each worker thread's position in the handler
    form,       \* signup: each worker thread's form fields
    users,      \* signup: the rows of table `users`, in insertion order
    sresp       \* signup: each worker thread's answer

nearbyVars == <<pc, lat, lng, filter, query, calls, reply, elements, i, places,
                seen, response>>
signupVars == <<spc, form, users, sresp>>
vars == <<nearbyVars, signupVars>>

---------------------------------------------------------------------------
(* Optional values and small helpers. *)

None == <<>>
Some(x) == <<x>>

Min(S) == CHOOSE x \in S : \A y \in S : x <= y

Abs(x) == IF x < 0 THEN -x ELSE x

Take(s, n) == SubSeq(s, 1, IF n < Len(s) THEN n ELSE Len(s))

---------------------------------------------------------------------------
(* Bounds of the model. *)

\* Longest upstream element list enumerated exhaustively over Protos.
MaxElems == 2

\* Length of the long upstream lists (more distinct places than are returned).
LongLen == 17

\* Worker threads serving POST /signup concurrently.
NProcs == 2

---------------------------------------------------------------------------
(* Program constants. *)

\* r = 2000, the search radius in metres.
Radius == 2000

\* [timeout:20] in the query text and timeout=20 of httpx.post.
TimeoutSeconds == 20

\* "out center 30": the upstream cap on raw elements.
OutLimit == 30

\* places[:15]
MaxPlaces == 15

---------------------------------------------------------------------------
(* Query construction (main.py 166-219). *)

\* One line of the query text: el["key" op "val"](around:r,lat,lng);
Clause(el, key, op, val, r, qlat, qlng) ==
    [el |-> el, key |-> key, op |-> op, val |-> val, around |-> <<r, qlat, qlng>>]

\* The clause list of each filter value, in the order of the text.
queries_map(r, qlat, qlng) ==
    [ elevator |-> <<
        Clause("node", "highway", "=", "elevator", r, qlat, qlng),
        Clause("node", "amenity", "=", "elevator", r, qlat, qlng),
        Clause("node", "building", "=", "elevator", r, qlat, qlng),
        Clause("node", "amenity", "=", "hospital", r, qlat, qlng),
        Clause("way", "amenity", "=", "hospital", r, qlat, qlng),
        Clause("node", "amenity", "=", "clinic", r, qlat, qlng),
        Clause("node", "amenity", "=", "mall", r, qlat, qlng),
        Clause("way", "shop", "=", "mall", r, qlat, qlng) >>,
      rest |-> <<
        Clause("node", "amenity", "=", "bench", r, qlat, qlng),
        Clause("node", "leisure", "=", "park", r, qlat, qlng),
        Clause("way", "leisure", "=", "park", r, qlat, qlng),
        Clause("node", "amenity", "=", "shelter", r, qlat, qlng),
        Clause("node", "tourism", "=", "picnic_site", r, qlat, qlng),
        Clause("node", "amenity", "=", "cafe", r, qlat, qlng),
        Clause("node", "amenity", "=", "restaurant", r, qlat, qlng) >>,
      washroom |-> <<
        Clause("node", "amenity", "=", "toilets", r, qlat, qlng),
        Clause("way", "amenity", "=", "toilets", r, qlat, qlng),
        Clause("node", "amenity", "=", "hospital", r, qlat, qlng),
        Clause("way", "amenity", "=", "hospital", r, qlat, qlng),
        Clause("node", "amenity", "=", "clinic", r, qlat, qlng),
        Clause("node", "amenity", "=", "pharmacy", r, qlat, qlng),
        Clause("node", "shop", "=", "mall", r, qlat, qlng),
        Clause("way", "shop", "=", "mall", r, qlat, qlng),
        Clause("node", "amenity", "=", "cafe", r, qlat, qlng),
        Clause("node", "amenity", "=", "restaurant", r, qlat, qlng) >>,
      hospital |-> <<
        Clause("node", "amenity", "=", "hospital", r, qlat, qlng),
        Clause("way", "amenity", "=", "hospital", r, qlat, qlng),
        Clause("node", "amenity", "=", "clinic", r, qlat, qlng),
        Clause("node", "amenity", "=", "pharmacy", r, qlat, qlng),
        Clause("node", "amenity", "=", "doctors", r, qlat, qlng),
        Clause("node", "amenity", "=", "health_centre", r, qlat, qlng) >>,
      all |-> <<
        Clause("node", "amenity", "~",
               "hospital|clinic|pharmacy|toilets|bench|shelter|cafe|restaurant|doctors",
               r, qlat, qlng),
        Clause("way", "amenity", "~", "hospital|clinic", r, qlat, qlng),
        Clause("node", "leisure", "=", "park", r, qlat, qlng),
        Clause("way", "leisure", "=", "park", r, qlat, qlng),
        Clause("node", "highway", "=", "elevator", r, qlat, qlng) >> ]

\* queries_map_get with a fault: an unknown filter falls back to the first entry.
queries_map_get_first_entry(m, f) ==
    IF f \in DOMAIN m THEN m[f] ELSE m["elevator"]

\* queries_map.get(filter, queries_map["all"])
queries_map_get(m, f) ==
    IF f \in DOMAIN m THEN m[f] ELSE m["all"]

\* query = "[out:json][timeout:20];\n(\n{inner}\n);\nout center 30;"
BuildQuery(qlat, qlng, f) ==
    [ out     |-> "json",
      timeout |-> TimeoutSeconds,
      inner   |-> queries_map_get(queries_map(Radius, qlat, qlng), f),
      mode    |-> "center",
      limit   |-> OutLimit ]

---------------------------------------------------------------------------
(* Distance (main.py 221-226) and the de-duplication key (main.py 275). *)

\* cos of a latitude in ten-thousandths, tabulated for the latitudes of the
\* model: within a degree of the equator, and around 12.97 degrees.
CosE4(u) ==
    LET deg == (Abs(u) + 50000) \div 100000
    IN  CASE deg = 0  -> 10000
          [] deg = 13 -> 9745
          [] OTHER    -> 10000

\* The 20 consecutive whole numbers of metres among which the distance lies,
\* for m2 = 10000 times the squared distance in metres (distances under 460 m).
MetresBlock(m2) ==
    LET c == CHOOSE c \in 0..22 :
                (2000 * c) * (2000 * c) <= m2 /\ m2 < (2000 * (c + 1)) * (2000 * (c + 1))
    IN  (20 * c)..(20 * c + 19)

\* haversine(elat, elng) from the query point, in whole metres.  The code's
\*   a = sin(dlat/2)^2 + cos(lat) cos(elat) sin(dlon/2)^2,
\*   int(R * 2 * atan2(sqrt(a), sqrt(1-a)))
\* is evaluated in its small-angle form 2 sqrt(a) = sqrt(dlat^2 + cos cos dlon^2)
\* (angles in radians) in integer arithmetic; for the offsets of the model
\* (under 350 m) the result is within one metre of the code's.
\* One coordinate unit of latitude is R * pi/180 * 1e-5 = 1.11195 m, whose
\* square is 1.236433.  int() truncates: the result is the largest whole number
\* of metres d with d^2 at most the squared distance.
haversine(qlat, qlng, elat, elng) ==
    LET dlat == elat - qlat
        dlon == elng - qlng
        cc   == (CosE4(qlat) * CosE4(elat)) \div 10000
        a    == (10000 * dlat * dlat + cc * dlon * dlon) \div 1000
        m2   == a * 1236 + (a * 433) \div 1000
    IN  CHOOSE d \in MetresBlock(m2) :
            (100 * d) * (100 * d) <= m2 /\ m2 < (100 * (d + 1)) * (100 * (d + 1))

\* round(x, 4) of a coordinate: to the nearest multiple of 10 units.  No
\* coordinate of the model lies half-way between two multiples.
Round4(u) == 10 * ((u + 5) \div 10)

\* coord_key with a fault: the key is the unrounded coordinate pair.
coord_key_unrounded(elat, elng) == <<elat, elng>>

\* coord_key = (round(elat, 4), round(elng, 4))
coord_key(elat, elng) == <<Round4(elat), Round4(elng)>>

---------------------------------------------------------------------------
(* Labels (main.py 228-250). *)

LowerAlpha == <<"a", "b", "c", "d", "e", "f", "g", "h", "i", "j", "k", "l", "m",
                "n", "o", "p", "q", "r", "s", "t", "u", "v", "w", "x", "y", "z">>

UpperAlpha == <<"A", "B", "C", "D", "E", "F", "G", "H", "I", "J", "K", "L", "M",
                "N", "O", "P", "Q", "R", "S", "T", "U", "V", "W", "X", "Y", "Z">>

IsLower(c) == \E k \in 1..26 : LowerAlpha[k] = c
IsUpper(c) == \E k \in 1..26 : UpperAlpha[k] = c
IsCased(c) == IsLower(c) \/ IsUpper(c)

ToUpper(c) == IF IsLower(c) THEN UpperAlpha[CHOOSE k \in 1..26 : LowerAlpha[k] = c] ELSE c
ToLower(c) == IF IsUpper(c) THEN LowerAlpha[CHOOSE k \in 1..26 : UpperAlpha[k] = c] ELSE c

\* str.title(): a cased character is upper-cased when the character before it
\* is not cased (or there is none), and lower-cased otherwise.
Title(s) ==
    [k \in 1..Len(s) |->
        IF k = 1 \/ ~IsCased(s[k - 1]) THEN ToUpper(s[k]) ELSE ToLower(s[k])]

\* The label of each tag value.
label_map ==
    [
      bench |->
        <<"S", "e", "a", "t", "i", "n", "g", " ", "/", " ", "R", "e", "s", "t", " ", "S", "p", "o", "t">>,
      toilets |->
        <<"P", "u", "b", "l", "i", "c", " ", "W", "a", "s", "h", "r", "o", "o", "m">>,
      shelter |->
        <<"S", "h", "e", "l", "t", "e", "r", " ", "/", " ", "R", "e", "s", "t", " ", "A", "r", "e", "a">>,
      hospital |->
        <<"H", "o", "s", "p", "i", "t", "a", "l", " ", "(", "H", "a", "s", " ", "W", "a", "s", "h", "r", "o", "o", "m", "s", ")">>,
      clinic |->
        <<"C", "l", "i", "n", "i", "c", " ", "(", "H", "a", "s", " ", "W", "a", "s", "h", "r", "o", "o", "m", "s", ")">>,
      pharmacy |->
        <<"P", "h", "a", "r", "m", "a", "c", "y">>,
      doctors |->
        <<"D", "o", "c", "t", "o", "r">>,
      health_centre |->
        <<"H", "e", "a", "l", "t", "h", " ", "C", "e", "n", "t", "r", "e">>,
      park |->
        <<"P", "a", "r", "k">>,
      elevator |->
        <<"E", "l", "e", "v", "a", "t", "o", "r">>,
      cafe |->
        <<"C", "a", "f", "é", " ", "(", "H", "a", "s", " ", "W", "a", "s", "h", "r", "o", "o", "m", "s", ")">>,
      restaurant |->
        <<"R", "e", "s", "t", "a", "u", "r", "a", "n", "t", " ", "(", "H", "a", "s", " ", "W", "a", "s", "h", "r", "o", "o", "m", "s", ")">>,
      mall |->
        <<"S", "h", "o", "p", "p", "i", "n", "g", " ", "M", "a", "l", "l", " ", "(", "H", "a", "s", " ", "W", "a", "s", "h", "r", "o", "o", "m", "s", ")">> ]

AccessiblePlace ==
    <<"A", "c", "c", "e", "s", "s", "i", "b", "l", "e", " ", "P", "l", "a", "c", "e">>

\* Python truthiness of tags.get("name"): None and "" are false.
Truthy(opt) == opt # None /\ opt[1] # <<>>

\* friendly_name with a fault: the label table is consulted before the name.
friendly_name_label_first(tags) ==
    LET keys == <<tags.amenity, tags.highway, tags.leisure, tags.shop>>
        hits == {k \in 1..4 : keys[k] \in DOMAIN label_map}
    IN  IF hits # {} THEN label_map[keys[Min(hits)]]
        ELSE IF Truthy(tags.name) THEN Title(tags.name[1])
        ELSE AccessiblePlace

\* friendly_name(tags)
friendly_name(tags) ==
    IF Truthy(tags.name) THEN Title(tags.name[1])
    ELSE LET keys == <<tags.amenity, tags.highway, tags.leisure, tags.shop>>
             hits == {k \in 1..4 : keys[k] \in DOMAIN label_map}
         IN  IF hits # {} THEN label_map[keys[Min(hits)]] ELSE AccessiblePlace

---------------------------------------------------------------------------
(* Inputs: query points, filter values and upstream answers. *)

\* (lat, lng) of the request: (12.97160, 77.59460) and (0, 0).
QueryPoints == {<<1297160, 7759460>>, <<0, 0>>}

\* The filter parameter: absent, the five keys of queries_map, and another.
FilterParams ==
    {None} \cup {Some(f) : f \in {"elevator", "rest", "washroom", "hospital",
                                  "all", "foo"}}

NameCityCentralPark ==
    <<"c", "i", "t", "y", " ", "c", "e", "n", "t", "r", "a", "l", " ", "p", "a", "r", "k">>

NameJoesCafe ==
    <<"J", "O", "E", "'", "S", " ", "c", "a", "f", "e">>

\* A "tags" mapping; a key that is missing reads as "" (name: as None).
NoTags ==
    [ name |-> None, amenity |-> "", highway |-> "", leisure |-> "", shop |-> "",
      wheelchair |-> "", street |-> "", full |-> "", place |-> "" ]

NoCenter == None
Center(clat, clon) == Some([lat |-> clat, lon |-> clon])

\* A raw element of the upstream "elements" array.
Element(type, elat, elon, center, tags) ==
    [type |-> type, lat |-> elat, lon |-> elon, center |-> center, tags |-> tags]

Node(elat, elon, tags) == Element(Some("node"), Some(elat), Some(elon), NoCenter, tags)
Way(center, tags) == Element(Some("way"), None, None, center, tags)

\* The raw elements the short upstream lists are made of, placed around the
\* query point (qlat, qlng).
Protos(qlat, qlng) ==
    { \* a hospital without a name
      Node(qlat + 40, qlng + 40, [NoTags EXCEPT !.amenity = "hospital"]),
      \* two nodes 1 m apart, with the same rounded coordinates and other tags
      Node(qlat - 10, qlng, [NoTags EXCEPT !.amenity = "toilets", !.place = "Cubbon"]),
      Node(qlat - 9, qlng + 2,
           [NoTags EXCEPT !.name = Some(NameCityCentralPark), !.amenity = "pharmacy",
                          !.wheelchair = "yes", !.street = "MG Road", !.full = "1 MG Road"]),
      \* an area with a center, an empty name, an amenity the table lacks
      Way(Center(Some(qlat + 84), Some(qlng - 36)),
          [NoTags EXCEPT !.name = Some(<<>>), !.amenity = "fuel",
                         !.highway = "elevator", !.leisure = "park"]),
      \* areas without a center: the member is missing, or is {}
      Way(NoCenter, [NoTags EXCEPT !.shop = "mall"]),
      Way(Center(None, None), [NoTags EXCEPT !.leisure = "park"]),
      \* an area whose center has "lon" only
      Way(Center(None, Some(qlng + 24)), [NoTags EXCEPT !.shop = "mall"]),
      \* nodes without "lat", without "lon"; an element without "type"
      Element(Some("node"), None, Some(qlng + 60), NoCenter,
              [NoTags EXCEPT !.amenity = "bench"]),
      Element(Some("node"), Some(qlat + 60), None, NoCenter,
              [NoTags EXCEPT !.amenity = "bench"]),
      Element(None, Some(qlat + 72), Some(qlng + 72), NoCenter,
              [NoTags EXCEPT !.amenity = "clinic"]),
      \* a named cafe, and a node without tags
      Node(qlat - 120, qlng + 96,
           [NoTags EXCEPT !.name = Some(NameJoesCafe), !.amenity = "cafe"]),
      Node(qlat + 12, qlng - 12, NoTags) }

\* Every sequence over S of length at most n.
SeqsUpTo(S, n) == UNION {[1..m -> S] : m \in 0..n}

\* The k-th place of a long list of n places, by order.
LongIndex(order, n, k) ==
    CASE order = "asc"   -> k
      [] order = "desc"  -> n + 1 - k
      [] order = "mixed" -> ((7 * k) % n) + 1

\* n benches at distinct rounded coordinates, 13 m apart going north.
LongList(qlat, qlng, n, order) ==
    [k \in 1..n |->
        Node(qlat + 12 * LongIndex(order, n, k), qlng,
             [NoTags EXCEPT !.amenity = "bench"])]

\* Lists of MaxPlaces to LongLen distinct places in three orders, and each
\* followed by a node at the rounded coordinates of its first element.
LongBodies(qlat, qlng) ==
    LET lists == {LongList(qlat, qlng, n, order) :
                    n \in MaxPlaces..LongLen, order \in {"asc", "desc", "mixed"}}
    IN  lists \cup
        {Append(l, Node(l[1].lat[1] + 1, l[1].lon[1] + 1,
                        [NoTags EXCEPT !.amenity = "shelter"])) : l \in lists}

\* What httpx.post and resp.json() can give.
\*   kind     "timeout", "connect": httpx.post raised
\*            "http": a response came back, with `status`
\*   body     "text": not JSON; "array": a JSON array; "object": a JSON object
\*   elements the object's "elements" member, None when it has none
Reply(kind, status, body, elems) ==
    [kind |-> kind, status |-> status, body |-> body, elements |-> elems]

NoReply == Reply("none", 0, "", None)

Replies(qlat, qlng) ==
    {Reply("timeout", 0, "", None), Reply("connect", 0, "", None)}
    \cup {Reply("http", st, "text", None) : st \in {429, 504}}
    \cup {Reply("http", 200, b, None) : b \in {"text", "array", "object"}}
    \cup {Reply("http", 200, "object", Some(l)) :
            l \in SeqsUpTo(Protos(qlat, qlng), MaxElems) \cup LongBodies(qlat, qlng)}

---------------------------------------------------------------------------
(* Exceptions raised inside the try block, and str(e). *)

Exc(type, msg) == [type |-> type, msg |-> msg]

ReadTimeout == Exc("httpx.ReadTimeout", "The read operation timed out")

ConnectError == Exc("httpx.ConnectError", "[Errno 111] Connection refused")

\* resp.raise_for_status() on a 4xx or 5xx response
HTTPStatusError(st) ==
    Exc("httpx.HTTPStatusError",
        IF st = 429
        THEN "Client error '429 Too Many Requests' for url 'https://overpass-api.de/api/interpreter'"
        ELSE "Server error '504 Gateway Timeout' for url 'https://overpass-api.de/api/interpreter'")

\* resp.json() on a body that is not JSON
JSONDecodeError == Exc("json.JSONDecodeError", "Expecting value: line 1 column 1 (char 0)")

\* resp.json().get on a JSON array
AttributeError == Exc("AttributeError", "'list' object has no attribute 'get'")

\* el["type"], el["lat"], el["lon"] on a missing key; str() of a KeyError is
\* the repr of the key.
KeyError(key) ==
    Exc("KeyError",
        CASE key = "type" -> "'type'"
          [] key = "lat"  -> "'lat'"
          [] key = "lon"  -> "'lon'")

\* str(e)
Str(e) == e.msg

---------------------------------------------------------------------------
(* The element loop's pure parts (main.py 264-295). *)

\* `not center`: the member is missing, or is an empty mapping.
EmptyCenter(c) == c = None \/ (c[1].lat = None /\ c[1].lon = None)

Located(kind, key, elat, elng) == [kind |-> kind, key |-> key, lat |-> elat, lng |-> elng]

\* Lines 267-273: where the element is, "skip" for `continue`, or "raise" with
\* the key whose lookup failed.
\*   if el["type"] == "node": elat, elng = el["lat"], el["lon"]
\*   else: center = el.get("center", {}); if not center: continue
\*         elat, elng = center.get("lat", lat), center.get("lon", lng)
Locate(el, qlat, qlng) ==
    IF el.type = None THEN Located("raise", "type", 0, 0)
    ELSE IF el.type[1] = "node"
         THEN IF el.lat = None THEN Located("raise", "lat", 0, 0)
              ELSE IF el.lon = None THEN Located("raise", "lon", 0, 0)
              ELSE Located("at", "", el.lat[1], el.lon[1])
         ELSE IF EmptyCenter(el.center) THEN Located("skip", "", 0, 0)
              ELSE Located("at", "",
                           IF el.center[1].lat = None THEN qlat ELSE el.center[1].lat[1],
                           IF el.center[1].lon = None THEN qlng ELSE el.center[1].lon[1])

\* tags.get("addr:street") or tags.get("addr:full") or tags.get("addr:place") or ""
Address(tags) ==
    IF tags.street # "" THEN tags.street
    ELSE IF tags.full # "" THEN tags.full
    ELSE tags.place

\* [t for t in [amenity, highway, leisure, shop] if t]
Types(tags) ==
    SelectSeq(<<tags.amenity, tags.highway, tags.leisure, tags.shop>>,
              LAMBDA t : t # "")

\* The dict appended to `places` (lines 282-295).  `el` is not a member of the
\* dict: it records the position in `elements` of the raw element the place
\* was built from.
BuildPlace(el, idx, elat, elng, qlat, qlng) ==
    [ name       |-> friendly_name(el.tags),
      address    |-> Address(el.tags),
      lat        |-> elat,
      lng        |-> elng,
      distance_m |-> haversine(qlat, qlng, elat, elng),
      types      |-> Types(el.tags),
      wheelchair |-> el.tags.wheelchair,
      el         |-> idx ]

---------------------------------------------------------------------------
(* Ranking and truncation (main.py 297-298). *)

\* The position of ps[k] after a stable ascending sort by distance_m: behind
\* every nearer place, and behind the equally distant places that precede it.
RankByDistance(ps, k) ==
    1 + Cardinality({j \in 1..Len(ps) :
                        \/ ps[j].distance_m < ps[k].distance_m
                        \/ ps[j].distance_m = ps[k].distance_m /\ j < k})

SortStable(ps) ==
    [r \in 1..Len(ps) |-> ps[CHOOSE k \in 1..Len(ps) : RankByDistance(ps, k) = r]]

\* SortByDistance with a fault: the list is left in upstream order.
SortByDistanceOmitted(ps) == ps

\* places.sort(key=lambda p: p["distance_m"]): stable, ascending.
SortByDistance(ps) == SortStable(ps)

\* Truncate with a fault: the last MaxPlaces places are kept.
TruncateTail(ps) ==
    SubSeq(ps, IF Len(ps) > MaxPlaces THEN Len(ps) - MaxPlaces + 1 ELSE 1, Len(ps))

\* places[:15]
Truncate(ps) == Take(ps, MaxPlaces)

---------------------------------------------------------------------------
(* Responses (main.py 298, 300-301). *)

Resp(status, ps, err) == [status |-> status, places |-> ps, error |-> err]

\* An exception that leaves the handler: the framework answers 500.
Unhandled == Resp(500, <<>>, None)

\* return {"places": places[:15]}
Success(ps) == Resp(200, ps, None)

\* ExceptHandler with a fault: only transport errors are caught
\* (except httpx.RequestError), any other exception leaves the handler.
ExceptHandlerTransportOnly(e) ==
    IF e.type \in {"httpx.ReadTimeout", "httpx.ConnectError"}
    THEN Resp(200, <<>>, Some(Str(e)))
    ELSE Unhandled

\* ExceptHandler with a fault: the places built before the failure are returned.
ExceptHandlerKeepsPlaces(e) == Resp(200, places, Some(Str(e)))

\* except Exception as e: return {"places": [], "error": str(e)}
ExceptHandler(e) == Resp(200, <<>>, Some(Str(e)))

---------------------------------------------------------------------------
(* The resolver's steps. *)

ResolverInit ==
    /\ pc = "idle"
    /\ lat = 0
    /\ lng = 0
    /\ filter = "all"
    /\ query = None
    /\ calls = 0
    /\ reply = NoReply
    /\ elements = <<>>
    /\ i = 0
    /\ places = <<>>
    /\ seen = {}
    /\ response = None

\* Raise with a fault: a failed call is made again, up to three calls.
RaiseRetries(e) ==
    IF e.type \in {"httpx.ReadTimeout", "httpx.ConnectError", "httpx.HTTPStatusError"}
       /\ calls < 3
    THEN /\ pc' = "sent"
         /\ calls' = calls + 1
         /\ response' = response
    ELSE /\ pc' = "done"
         /\ calls' = calls
         /\ response' = Some(ExceptHandler(e))

\* An exception inside the try block: control goes to the except clause, which
\* returns; there is no loop around the call.
Raise(e) ==
    /\ pc' = "done"
    /\ calls' = calls
    /\ response' = Some(ExceptHandler(e))

\* In state "idle": GET /api/nearby?lat=..&lng=..[&filter=..], lines 162-257
\* up to the moment httpx.post has sent the query.
Request(qlat, qlng, f) ==
    /\ lat' = qlat
    /\ lng' = qlng
    /\ filter' = IF f = None THEN "all" ELSE f[1]
    /\ query' = Some(BuildQuery(qlat, qlng, filter'))
    /\ calls' = calls + 1
    /\ pc' = "sent"
    /\ UNCHANGED <<reply, elements, i, places, seen, response>>
    /\ UNCHANGED signupVars

\* In state "sent": httpx.post raises, because the 20 s timeout expires or the
\* transport fails.
PostRaises(r) ==
    /\ r.kind \in {"timeout", "connect"}
    /\ reply' = r
    /\ Raise(IF r.kind = "timeout" THEN ReadTimeout ELSE ConnectError)
    /\ UNCHANGED <<lat, lng, filter, query, elements, i, places, seen>>
    /\ UNCHANGED signupVars

\* In state "sent": httpx.post returns a response (lines 258-262).
PostReturns(r) ==
    /\ r.kind = "http"
    /\ reply' = r
    /\ IF r.status \notin 200..299
       THEN Raise(HTTPStatusError(r.status)) /\ UNCHANGED <<elements, i, places, seen>>
       ELSE IF r.body = "text"
       THEN Raise(JSONDecodeError) /\ UNCHANGED <<elements, i, places, seen>>
       ELSE IF r.body = "array"
       THEN Raise(AttributeError) /\ UNCHANGED <<elements, i, places, seen>>
       ELSE /\ elements' = IF r.elements = None THEN <<>> ELSE r.elements[1]
            /\ places' = <<>>
            /\ seen' = {}
            /\ i' = 1
            /\ pc' = "loop"
            /\ UNCHANGED <<calls, response>>
    /\ UNCHANGED <<lat, lng, filter, query>>
    /\ UNCHANGED signupVars

\* One iteration of `for el in elements` (lines 264-295).
LoopStep ==
    /\ pc = "loop"
    /\ i <= Len(elements)
    /\ LET el  == elements[i]
           loc == Locate(el, lat, lng)
           key == coord_key(loc.lat, loc.lng)
       IN  CASE loc.kind = "raise" ->
                  Raise(KeyError(loc.key)) /\ UNCHANGED <<i, places, seen>>
             [] loc.kind = "skip" ->
                  i' = i + 1 /\ UNCHANGED <<pc, calls, response, places, seen>>
             [] loc.kind = "at" /\ key \in seen ->
                  i' = i + 1 /\ UNCHANGED <<pc, calls, response, places, seen>>
             [] loc.kind = "at" /\ key \notin seen ->
                  /\ seen' = seen \cup {key}
                  /\ places' = Append(places, BuildPlace(el, i, loc.lat, loc.lng, lat, lng))
                  /\ i' = i + 1
                  /\ UNCHANGED <<pc, calls, response>>
    /\ UNCHANGED <<lat, lng, filter, query, reply, elements>>
    /\ UNCHANGED signupVars

\* The loop is over: sort in place, return the first 15 (lines 297-298).
Finish ==
    /\ pc = "loop"
    /\ i > Len(elements)
    /\ places' = SortByDistance(places)
    /\ response' = Some(Success(Truncate(places')))
    /\ pc' = "done"
    /\ UNCHANGED <<lat, lng, filter, query, calls, reply, elements, i, seen>>
    /\ UNCHANGED signupVars

---------------------------------------------------------------------------
(* Signup (main.py 36-84) over table `users` (database.py 16-33, 51-74). *)

Procs == 1..NProcs

Mobiles == {"9000000001", "9000000002"}

Categories == {"senior", "disabled", "differently_abled", "other"}

NoForm == [mobile |-> "", category |-> ""]

SResp(kind, error, to, id) == [kind |-> kind, error |-> error, to |-> to, id |-> id]

NoSResp == SResp("none", "", "", 0)

\* templates.TemplateResponse("signup.html", {"request": request, "error": error})
SignupPage(error) == SResp("page", error, "", 0)

\* RedirectResponse(url=f"/{to}/{user.id}", status_code=302)
Redirect(to, id) == SResp("redirect", "", to, id)

\* An exception that leaves the handler: the framework answers 500.
ServerError(exc) == SResp("error500", exc, "", 0)

\* db.query(User).filter(User.mobile == mobile).first()
get_user_by_mobile(rows, mobile) ==
    LET hits == {k \in 1..Len(rows) : rows[k].mobile = mobile}
    IN  IF hits = {} THEN None ELSE Some(rows[Min(hits)])

\* mobile = Column(String, unique=True, nullable=False): the INSERT of a row
\* whose mobile is in the table fails.
UniqueViolation(rows, mobile) == \E k \in 1..Len(rows) : rows[k].mobile = mobile

\* The row create_user adds; id is the integer primary key.
User(rows, mobile, category) ==
    [id |-> Len(rows) + 1, mobile |-> mobile, category |-> category]

SignupInit ==
    /\ spc = [p \in Procs |-> "idle"]
    /\ form = [p \in Procs |-> NoForm]
    /\ users = <<>>
    /\ sresp = [p \in Procs |-> NoSResp]

\* POST /signup arrives at worker p: the category check (lines 49-54).
SignupValidate(p, mobile, category) ==
    /\ spc[p] = "idle"
    /\ form' = [form EXCEPT ![p] = [mobile |-> mobile, category |-> category]]
    /\ IF category \notin {"disabled", "differently_abled", "senior"}
       THEN /\ sresp' = [sresp EXCEPT ![p] = SignupPage("Please select a valid category.")]
            /\ spc' = [spc EXCEPT ![p] = "done"]
       ELSE /\ sresp' = sresp
            /\ spc' = [spc EXCEPT ![p] = "check"]
    /\ UNCHANGED users
    /\ UNCHANGED nearbyVars

\* existing = get_user_by_mobile(db, mobile) (lines 56-62).
SignupCheck(p) ==
    /\ spc[p] = "check"
    /\ IF get_user_by_mobile(users, form[p].mobile) # None
       THEN /\ sresp' = [sresp EXCEPT ![p] =
                           SignupPage("Mobile number already registered. Please login.")]
            /\ spc' = [spc EXCEPT ![p] = "done"]
       ELSE /\ sresp' = sresp
            /\ spc' = [spc EXCEPT ![p] = "create"]
    /\ UNCHANGED <<form, users>>
    /\ UNCHANGED nearbyVars

\* create_user(...) and the redirect (lines 64-84; database.py 59-74).
\* db.commit() raises IntegrityError when the INSERT breaks the UNIQUE
\* constraint; signup has no handler for it.
SignupCreate(p) ==
    /\ spc[p] = "create"
    /\ IF UniqueViolation(users, form[p].mobile)
       THEN /\ users' = users
            /\ sresp' = [sresp EXCEPT ![p] = ServerError("sqlalchemy.exc.IntegrityError")]
       ELSE /\ users' = Append(users, User(users, form[p].mobile, form[p].category))
            /\ sresp' = [sresp EXCEPT ![p] =
                           Redirect(IF form[p].category \in {"disabled", "differently_abled"}
                                    THEN "disabled" ELSE "senior",
                                    Len(users) + 1)]
    /\ spc' = [spc EXCEPT ![p] = "done"]
    /\ UNCHANGED form
    /\ UNCHANGED nearbyVars

\* The answer is sent; worker p is free for the next request.
SignupReturn(p) ==
    /\ spc[p] = "done"
    /\ spc' = [spc EXCEPT ![p] = "idle"]
    /\ form' = [form EXCEPT ![p] = NoForm]
    /\ sresp' = [sresp EXCEPT ![p] = NoSResp]
    /\ UNCHANGED users
    /\ UNCHANGED nearbyVars

---------------------------------------------------------------------------
(* Specifications. *)

Init == ResolverInit /\ SignupInit

Next ==
    \/ pc = "idle" /\ \E q \in QueryPoints, f \in FilterParams : Request(q[1], q[2], f)
    \/ pc = "sent" /\ \E r \in Replies(lat, lng) : PostRaises(r)
    \/ pc = "sent" /\ \E r \in Replies(lat, lng) : PostReturns(r)
    \/ LoopStep
    \/ Finish

\* One request to the resolver.
Spec == Init /\ [][Next]_vars

\* httpx.post(..., timeout=20) with nothing else happening: the timeout expires.
PostTimesOut == pc = "sent" /\ PostRaises(Reply("timeout", 0, "", None))

\* The scheduling the code gives: a call that gets no answer ends by its
\* timeout, and the handler, once the call has returned, runs on its worker
\* thread until it returns.
LiveSpec == Spec /\ WF_vars(PostTimesOut) /\ WF_vars(LoopStep) /\ WF_vars(Finish)

SignupNext ==
    \/ \E p \in Procs, m \in Mobiles, c \in Categories : SignupValidate(p, m, c)
    \/ \E p \in Procs : SignupCheck(p)
    \/ \E p \in Procs : SignupCreate(p)
    \/ \E p \in Procs : SignupReturn(p)

\* Concurrent signups on NProcs worker threads.
SignupSpec == Init /\ [][SignupNext]_vars

---------------------------------------------------------------------------
(* Vocabulary of the properties. *)

\* The response of a finished request.
Answer == response[1]

Succeeded == pc = "done" /\ Answer.status = 200 /\ Answer.error = None

\* The degrade-to-empty shape: {"places": [], "error": "<non-empty string>"}.
DegradedToEmpty(a) ==
    a.status = 200 /\ a.places = <<>> /\ a.error # None /\ a.error[1] # ""

SortedByDistance(ps) ==
    \A a, b \in 1..Len(ps) : a < b => ps[a].distance_m <= ps[b].distance_m

\* The pair of a place's coordinates rounded to 4 decimals.
RoundedPair(p) == <<10 * ((p.lat + 5) \div 10), 10 * ((p.lng + 5) \div 10)>>

\* The upstream list is not in distance order: some place was built before a
\* nearer one.
UpstreamOutOfOrder ==
    \E a, b \in 1..Len(places) :
        places[a].el < places[b].el /\ places[a].distance_m > places[b].distance_m

\* A raw element without "type", or a node without "lat" or "lon".
Malformed(el) ==
    \/ el.type = None
    \/ el.type = Some("node") /\ (el.lat = None \/ el.lon = None)

\* The upstream answer was a JSON object with an "elements" array.
GotElements ==
    reply.kind = "http" /\ reply.status = 200 /\ reply.body = "object"
    /\ reply.elements # None

\* The positions of the raw elements that have coordinates, and the rounded
\* pair of each.
Placed(j) == Locate(elements[j], lat, lng).kind = "at"

PairOf(j) ==
    LET loc == Locate(elements[j], lat, lng)
    IN  <<10 * ((loc.lat + 5) \div 10), 10 * ((loc.lng + 5) \div 10)>>

\* The first raw element of each rounded pair.
FirstOfPair ==
    {j \in 1..Len(elements) :
        Placed(j) /\ \A h \in 1..(j - 1) : Placed(h) => PairOf(h) # PairOf(j)}

---------------------------------------------------------------------------
(* C1 *)

\* C1: whatever the request and the upstream answer, the returned 'places'
\* list has at most 15 entries and is sorted non-decreasing by distance_m.
C1_AtMost15Sorted ==
    pc = "done" =>
        /\ Len(Answer.places) <= 15
        /\ SortedByDistance(Answer.places)

\* More than 15 distinct places came back, out of distance order, and 15 were
\* returned.
C1_Witness ==
    /\ Succeeded
    /\ Len(places) > 15
    /\ Len(Answer.places) = 15
    /\ UpstreamOutOfOrder

---------------------------------------------------------------------------
(* C2 *)

\* The failures the exception path covers: a transport error or timeout, a
\* non-success status, a body that is not JSON or not a JSON object, a
\* malformed element.
UpstreamRaised ==
    \/ reply.kind \in {"timeout", "connect"}
    \/ reply.kind = "http" /\ reply.status \notin 200..299
    \/ reply.kind = "http" /\ reply.status = 200 /\ reply.body \in {"text", "array"}
    \/ GotElements /\ \E j \in 1..Len(reply.elements[1]) : Malformed(reply.elements[1][j])

\* A JSON object that has no "elements" member.
ObjectWithoutElements ==
    reply.kind = "http" /\ reply.status = 200 /\ reply.body = "object"
    /\ reply.elements = None

\* C2 as stated: whenever contacting or parsing the upstream service fails
\* (transport error or timeout, non-success status, malformed or unexpected
\* response shape), the answer is the degrade-to-empty shape and nothing is
\* raised to the caller.
C2_Original ==
    pc = "done" /\ (UpstreamRaised \/ ObjectWithoutElements) => DegradedToEmpty(Answer)

\* C2 as amended: the answer is the degrade-to-empty shape whenever a transport
\* error or timeout, a non-success status, a body that is not a JSON object, or
\* a malformed element occurs; a JSON object without an "elements" member is
\* read as an empty list and answered {"places": []} with no error.
C2_Amended ==
    pc = "done" =>
        /\ UpstreamRaised => DegradedToEmpty(Answer)
        /\ ObjectWithoutElements => Answer = [status |-> 200, places |-> <<>>, error |-> None]

\* The upstream service answered 504 and the caller got the degraded answer.
C2_Witness ==
    /\ pc = "done"
    /\ reply.kind = "http"
    /\ reply.status = 504
    /\ DegradedToEmpty(Answer)

---------------------------------------------------------------------------
(* C3 *)

\* C3: in a successful response no two places round to the same 4-decimal
\* (lat, lng) pair, and the place kept for a pair is the one built from the
\* first raw element, in upstream order, that has the pair, whatever the tags
\* of the later ones.
C3_FirstOfRoundedPairKept ==
    /\ Succeeded =>
          \A a, b \in 1..Len(Answer.places) :
              a # b => RoundedPair(Answer.places[a]) # RoundedPair(Answer.places[b])
    /\ \A k \in 1..Len(places) :
          LET p == places[k]
              first == Min({j \in 1..Len(elements) : Placed(j) /\ PairOf(j) = RoundedPair(p)})
              loc == Locate(elements[first], lat, lng)
          IN  /\ p.el = first
              /\ p.lat = loc.lat
              /\ p.lng = loc.lng
              /\ p.types = Types(elements[first].tags)
              /\ p.wheelchair = elements[first].tags.wheelchair

\* Two raw elements with the same rounded pair and different tags gave one
\* place, built from the first.
C3_Witness ==
    /\ Succeeded
    /\ Len(elements) = 2
    /\ Placed(1) /\ Placed(2)
    /\ PairOf(1) = PairOf(2)
    /\ elements[1].tags # elements[2].tags
    /\ Len(Answer.places) = 1
    /\ Answer.places[1].el = 1

---------------------------------------------------------------------------
(* C4 *)

LabelKeys ==
    {"bench", "toilets", "shelter", "hospital", "clinic", "pharmacy", "doctors",
     "health_centre", "park", "elevator", "cafe", "restaurant", "mall"}

\* n is s title-cased: each letter that starts a run of letters in upper case,
\* every other letter in lower case, everything else as it is.
TitleCased(n, s) ==
    /\ Len(n) = Len(s)
    /\ \A k \in 1..Len(s) :
          IF k = 1 \/ ~IsCased(s[k - 1])
          THEN n[k] = ToUpper(s[k])
          ELSE n[k] = ToLower(s[k])

\* The display name the label rule gives for a "tags" mapping.
LabelRule(n, t) ==
    LET vals == <<t.amenity, t.highway, t.leisure, t.shop>>
    IN  IF t.name # None /\ t.name[1] # <<>>
        THEN TitleCased(n, t.name[1])
        ELSE IF \E k \in 1..4 : vals[k] \in LabelKeys
        THEN \E k \in 1..4 :
                /\ vals[k] \in LabelKeys
                /\ \A h \in 1..(k - 1) : vals[h] \notin LabelKeys
                /\ n = label_map[vals[k]]
        ELSE n = <<"A", "c", "c", "e", "s", "s", "i", "b", "l", "e", " ", "P", "l", "a", "c", "e">>

\* C4: the display name is the title-cased "name" tag when that tag is not
\* empty; otherwise the label of the first of the amenity, highway, leisure,
\* shop values that is a key of the label table; otherwise "Accessible Place".
\* A named element keeps its name whatever its other tags; a hospital without
\* a name is "Hospital (Has Washrooms)"; toilets without a name are "Public
\* Washroom"; "city central park" becomes "City Central Park".
C4_LabelAssignment ==
    \A k \in 1..Len(places) :
        LET p == places[k]
            t == elements[p.el].tags
        IN  /\ LabelRule(p.name, t)
            /\ (t.name = None \/ t.name = Some(<<>>)) /\ t.amenity = "hospital" =>
                  p.name = <<"H", "o", "s", "p", "i", "t", "a", "l", " ", "(", "H", "a", "s", " ", "W", "a", "s", "h", "r", "o", "o", "m", "s", ")">>
            /\ (t.name = None \/ t.name = Some(<<>>)) /\ t.amenity = "toilets" =>
                  p.name = <<"P", "u", "b", "l", "i", "c", " ", "W", "a", "s", "h", "r", "o", "o", "m">>
            /\ t.name = Some(NameCityCentralPark) =>
                  p.name = <<"C", "i", "t", "y", " ", "C", "e", "n", "t", "r", "a", "l", " ", "P", "a", "r", "k">>

\* A named place that also has a labelled amenity, and an unnamed one whose
\* amenity has no label and whose highway has.
C4_Witness ==
    /\ \E k \in 1..Len(places) :
          /\ elements[places[k].el].tags.name = Some(NameCityCentralPark)
          /\ elements[places[k].el].tags.amenity = "pharmacy"
          /\ places[k].name = <<"C", "i", "t", "y", " ", "C", "e", "n", "t", "r", "a", "l", " ", "P", "a", "r", "k">>
    /\ \E k \in 1..Len(places) :
          /\ elements[places[k].el].tags.name = Some(<<>>)
          /\ elements[places[k].el].tags.amenity = "fuel"
          /\ places[k].name = <<"E", "l", "e", "v", "a", "t", "o", "r">>

---------------------------------------------------------------------------
(* C5 *)

\* C5: a filter other than elevator, rest, washroom, hospital, all (an absent
\* one is "all") sends the clauses of "all"; each of the five sends its own
\* clauses, and no two of the five send the same.
C5_FilterFallback ==
    LET known == {"elevator", "rest", "washroom", "hospital", "all"}
        m == queries_map(2000, lat, lng)
    IN  /\ pc # "idle" =>
              query[1].inner = IF filter \in known THEN m[filter] ELSE m["all"]
        /\ \A f, g \in known : f # g => m[f] # m[g]

\* A request with filter "foo" sent the five clauses of "all".
C5_Witness ==
    /\ pc # "idle"
    /\ filter = "foo"
    /\ Len(query[1].inner) = 5
    /\ query[1].inner[1].op = "~"
    /\ query[1].inner[5] =
          [el |-> "node", key |-> "highway", op |-> "=", val |-> "elevator",
           around |-> <<2000, lat, lng>>]

---------------------------------------------------------------------------
(* C6 *)

\* C6: the returned list is the first 15 entries of the distance-sorted list
\* of the de-duplicated places: every place left out is at least as far as
\* every returned one, and 15 or fewer places are all returned.
C6_NearestReturned ==
    Succeeded =>
        LET ret == Answer.places
            n == Len(places)
        IN  /\ {places[k].el : k \in 1..n} = FirstOfPair
            /\ n = Cardinality(FirstOfPair)
            /\ SortedByDistance(places)
            /\ ret = SubSeq(places, 1, IF n < 15 THEN n ELSE 15)
            /\ \A k \in 1..Len(ret), h \in 16..n :
                  places[h].distance_m >= ret[k].distance_m
            /\ n <= 15 => ret = places

\* Seventeen places, farthest first; the two farthest were left out.
C6_Witness ==
    /\ Succeeded
    /\ Len(places) = 17
    /\ Len(Answer.places) = 15
    /\ elements[1].lat[1] > elements[17].lat[1]
    /\ {places[16].el, places[17].el} = {1, 2}

---------------------------------------------------------------------------
(* C7 *)

\* C7: a node gives a place at its own lat/lon; any other element gives a
\* place at its center, and none when it has no center; no place lies at
\* coordinates its raw element did not carry.
C7_CoordinatesFromElement ==
    \A k \in 1..Len(places) :
        LET p == places[k]
            el == elements[p.el]
        IN  IF el.type = Some("node")
            THEN p.lat = el.lat[1] /\ p.lng = el.lon[1]
            ELSE /\ el.center # None
                 /\ el.center[1].lat = Some(p.lat)
                 /\ el.center[1].lon = Some(p.lng)

---------------------------------------------------------------------------
(* C8 *)

\* C8: a request makes exactly one outbound call and never a second; after a
\* timeout or a transport error it ends with the degrade-to-empty answer; and
\* every request that has sent its query returns.
C8_SingleAttemptCompletes ==
    /\ [](calls <= 1)
    /\ [](pc # "idle" => calls = 1)
    /\ [](pc = "done" /\ reply.kind \in {"timeout", "connect"} => DegradedToEmpty(Answer))
    /\ (pc = "sent" ~> pc = "done")

\* The call timed out and the request returned after its one call.
C8_Witness ==
    /\ pc = "done"
    /\ reply.kind = "timeout"
    /\ calls = 1
    /\ DegradedToEmpty(Answer)

---------------------------------------------------------------------------
(* C9 *)

\* C9: no response has both an error and a non-empty 'places' list; one
\* malformed raw element anywhere in the upstream list (no "type", or a node
\* without "lat" or "lon") makes the whole response the degrade-to-empty one,
\* whatever was built from the elements before it.
C9_AllOrNothing ==
    /\ response # None => (Answer.error = None \/ Answer.places = <<>>)
    /\ pc = "done" /\ GotElements /\ (\E j \in 1..Len(elements) : Malformed(elements[j]))
          => DegradedToEmpty(Answer)

\* A place was built from the first element, the second is a node without
\* "lat", and the response is empty with the KeyError's text.
C9_Witness ==
    /\ pc = "done"
    /\ Len(elements) = 2
    /\ Len(places) = 1
    /\ elements[2].type = Some("node") /\ elements[2].lat = None
    /\ Answer.places = <<>>
    /\ Answer.error = Some("'lat'")

---------------------------------------------------------------------------
(* C10 *)

\* C10: the user table holds at most one user per mobile number, and a signup
\* whose mobile is registered creates no user and is answered with the
\* "already registered" page, never with an unhandled failure, also when two
\* signups for one mobile both pass the existence check before either inserts.
C10_MobileUniqueness ==
    /\ \A a, b \in 1..Len(users) : users[a].mobile = users[b].mobile => a = b
    /\ \A p \in Procs :
          spc[p] = "done" /\ form[p].category \in {"disabled", "differently_abled", "senior"} =>
              \/ /\ sresp[p].kind = "redirect"
                 /\ sresp[p].id \in 1..Len(users)
                 /\ users[sresp[p].id].mobile = form[p].mobile
              \/ sresp[p] = SignupPage("Mobile number already registered. Please login.")

====
